---- MODULE Spec2Model ----
(***************************************************************************)
(* Call-center dashboard (app.py): the load-time normalisation of the      *)
(* dataset, the filter steps of update_graphs, and the past_filters store  *)
(* behind handle_past_data, on one shared sqlite3 connection.              *)
(*                                                                         *)
(* Values that pandas / Python may leave missing (NaN, NaT, None, NULL)    *)
(* are cells: <<>> is the missing value and <<v>> holds v.                 *)
(***************************************************************************)
EXTENDS Integers, Sequences, FiniteSets, TLC

VARIABLES
    df,               \* the global DataFrame: raw rows, normalised in place
    normalized,       \* module-level lines 27-30 have run
    graph_args,       \* arguments of the last update_graphs call (cell)
    filtered_df,      \* filtered_df of the last update_graphs call (cell)
    table,            \* past_filters as the connection sees it (set of rows)
    seq,              \* sqlite_sequence entry of past_filters
    committed,        \* [table, seq] as of the last COMMIT (the database file)
    pending,          \* invocations whose write is executed but not committed
    pc,               \* per invocation: position in handle_past_data
    button,           \* per invocation: button_id (line 236)
    args,             \* per invocation: the State values it was called with
    past_data,        \* result of the last SELECT * FROM past_filters
    past_data_output, \* children of the past-data-output div
    triggered,        \* history: which callback ran last
    assigned,         \* history: ids given out by INSERT, in order
    last_write        \* history: "none", "save" or "clear"

vars == <<df, normalized, graph_args, filtered_df, table, seq, committed,
          pending, pc, button, args, past_data, past_data_output, triggered,
          assigned, last_write>>

dbVars == <<table, seq, committed, pending>>

callVars == <<pc, button, args>>

graphVars == <<graph_args, filtered_df>>

dataVars == <<df, normalized>>

-----------------------------------------------------------------------------
(* Bounds *)

MaxRows == 1        \* rows of the loaded sheet
MaxSaves == 3       \* INSERTs over the life of the database
NumThreads == 2     \* concurrent handle_past_data invocations

-----------------------------------------------------------------------------
(* Cells *)

NaN == <<>>
None == <<>>
Some(v) == <<v>>

Range(s) == {s[i] : i \in 1..Len(s)}

Max(a, b) == IF a >= b THEN a ELSE b

\* bool(x) of an optional list and of an optional string: None, [] and ""
\* are falsy
TruthyList(x) == x # None /\ x[1] # <<>>

TruthyString(x) == x # None /\ x[1] # ""

-----------------------------------------------------------------------------
(* Load-time normalisation, lines 19-30 *)

Sentiments == <<"Positive", "Neutral", "Negative">>

\* Faulty variant of the classification: a strict first threshold.
classify_sentiment_gt(rating) ==
    IF rating # NaN /\ rating[1] > 4 THEN "Positive"
    ELSE IF rating # NaN /\ rating[1] = 3 THEN "Neutral"
    ELSE "Negative"

\* Lines 19-25. Comparisons with NaN are False, so a missing rating falls to
\* the else branch.
classify_sentiment(rating) ==
    IF rating # NaN /\ rating[1] >= 4 THEN "Positive"
    ELSE IF rating # NaN /\ rating[1] = 3 THEN "Neutral"
    ELSE "Negative"

\* Days of each month of 2024, the year of the modelled sheet.
DaysIn == <<31, 29, 31, 30, 31, 30, 31, 31, 30, 31, 30, 31>>

RECURSIVE DaysBefore(_)
DaysBefore(m) == IF m <= 1 THEN 0 ELSE DaysIn[m - 1] + DaysBefore(m - 1)

\* pd.to_datetime(..., errors="coerce") on a date text <<month, day>>:
\* the day of the year, or NaT when the text names no calendar day.
to_datetime(text) ==
    IF /\ Len(text) = 2
       /\ text[1] \in 1..12
       /\ text[2] \in 1..DaysIn[text[1]]
    THEN Some(DaysBefore(text[1]) + text[2])
    ELSE NaN

\* pd.to_timedelta(astype(str), errors="coerce").dt.total_seconds() on an
\* elapsed-time text <<hours, minutes, seconds>>.
to_timedelta_seconds(text) ==
    IF Len(text) = 3
    THEN Some(text[1] * 3600 + text[2] * 60 + text[3])
    ELSE NaN

\* Lines 27-29: the derived column and the two coerced columns.
Coerce(row) ==
    [idx |-> row.idx,
     rating |-> row.rating,
     Sentiment |-> Some(classify_sentiment(row.rating)),
     Date |-> to_datetime(row.Date),
     AvgTalkDuration |-> to_timedelta_seconds(row.AvgTalkDuration),
     Resolved |-> row.Resolved]

Complete(rec) ==
    /\ rec.Date # NaN
    /\ rec.AvgTalkDuration # NaN
    /\ rec.Sentiment # NaN
    /\ rec.Resolved # NaN

\* Line 30: dropna(subset=["Date", "AvgTalkDuration", "Sentiment", "Resolved"])
dropna(frame) == SelectSeq(frame, Complete)

Normalization(frame) == dropna([i \in 1..Len(frame) |-> Coerce(frame[i])])

-----------------------------------------------------------------------------
(* Sheets the model loads *)

RawRatings == {NaN, Some(2), Some(3), Some(4)}
RawDates == {<<1, 31>>, <<2, 1>>, <<2, 30>>}          \* Feb 30 does not parse
RawDurations == {<<0, 2, 0>>, <<0, 5, 0>>, <<>>}      \* empty text does not parse
RawResolved == {NaN, Some("Y"), Some("N")}

RawCells == [rating : RawRatings, Date : RawDates,
             AvgTalkDuration : RawDurations, Resolved : RawResolved]

WithIndex(cells) ==
    [i \in 1..Len(cells) |->
        [idx |-> i - 1, rating |-> cells[i].rating, Date |-> cells[i].Date,
         AvgTalkDuration |-> cells[i].AvgTalkDuration,
         Resolved |-> cells[i].Resolved]]

Sheets == UNION {[1..n -> RawCells] : n \in 0..MaxRows}

\* The two records of the specification's worked example.
SampleSheet ==
    <<[rating |-> Some(4), Date |-> <<1, 31>>, AvgTalkDuration |-> <<0, 2, 0>>,
       Resolved |-> Some("Y")],
      [rating |-> Some(2), Date |-> <<2, 1>>, AvgTalkDuration |-> <<0, 5, 0>>,
       Resolved |-> Some("N")]>>

-----------------------------------------------------------------------------
(* update_graphs, lines 151-165 *)

isin(value, list) == \E i \in 1..Len(list) : list[i] = value

Between(cell, lo, hi) == cell # NaN /\ cell[1] >= lo /\ cell[1] <= hi

\* Comparing the Date column with a date string parses the string.
DateValue(text) == to_datetime(text)[1]

\* Faulty variants of the filter: an exclusive end date; a sentiment clause that is
\* applied to an empty selection too; range bounds put in order before use.
FilterStepsExclusiveEnd(frame, selected_sentiments, start_date, end_date, resolved_status, duration_range) ==
    LET InSel(r) == isin(r.Sentiment[1], selected_sentiments[1])
        InDates(r) == /\ Between(r.Date, DateValue(start_date), DateValue(end_date))
                      /\ r.Date[1] # DateValue(end_date)
        IsRes(r) == r.Resolved = resolved_status
        InDur(r) == Between(r.AvgTalkDuration, duration_range[1], duration_range[2])
        f1 == IF TruthyList(selected_sentiments) THEN SelectSeq(frame, InSel) ELSE frame
        f2 == SelectSeq(f1, InDates)
        f3 == IF TruthyString(resolved_status) THEN SelectSeq(f2, IsRes) ELSE f2
    IN  SelectSeq(f3, InDur)

FilterStepsEmptySelection(frame, selected_sentiments, start_date, end_date, resolved_status, duration_range) ==
    LET InSel(r) == isin(r.Sentiment[1], selected_sentiments[1])
        InDates(r) == Between(r.Date, DateValue(start_date), DateValue(end_date))
        IsRes(r) == r.Resolved = resolved_status
        InDur(r) == Between(r.AvgTalkDuration, duration_range[1], duration_range[2])
        f1 == IF selected_sentiments # None THEN SelectSeq(frame, InSel) ELSE frame
        f2 == SelectSeq(f1, InDates)
        f3 == IF TruthyString(resolved_status) THEN SelectSeq(f2, IsRes) ELSE f2
    IN  SelectSeq(f3, InDur)

FilterStepsOrderedBounds(frame, selected_sentiments, start_date, end_date, resolved_status, duration_range) ==
    LET Lo(a, b) == IF a <= b THEN a ELSE b
        Hi(a, b) == IF a <= b THEN b ELSE a
        s == DateValue(start_date)
        e == DateValue(end_date)
        InSel(r) == isin(r.Sentiment[1], selected_sentiments[1])
        InDates(r) == Between(r.Date, Lo(s, e), Hi(s, e))
        IsRes(r) == r.Resolved = resolved_status
        InDur(r) == Between(r.AvgTalkDuration,
                            Lo(duration_range[1], duration_range[2]),
                            Hi(duration_range[1], duration_range[2]))
        f1 == IF TruthyList(selected_sentiments) THEN SelectSeq(frame, InSel) ELSE frame
        f2 == SelectSeq(f1, InDates)
        f3 == IF TruthyString(resolved_status) THEN SelectSeq(f2, IsRes) ELSE f2
    IN  SelectSeq(f3, InDur)

\* Lines 152-165: four selections in sequence, the first and third only when
\* their argument is truthy.
FilterSteps(frame, selected_sentiments, start_date, end_date, resolved_status, duration_range) ==
    LET InSel(r) == isin(r.Sentiment[1], selected_sentiments[1])
        InDates(r) == Between(r.Date, DateValue(start_date), DateValue(end_date))
        IsRes(r) == r.Resolved = resolved_status
        InDur(r) == Between(r.AvgTalkDuration, duration_range[1], duration_range[2])
        f1 == IF TruthyList(selected_sentiments) THEN SelectSeq(frame, InSel) ELSE frame
        f2 == SelectSeq(f1, InDates)
        f3 == IF TruthyString(resolved_status) THEN SelectSeq(f2, IsRes) ELSE f2
    IN  SelectSeq(f3, InDur)

-----------------------------------------------------------------------------
(* Callback arguments *)

SentimentLists ==
    {<<>>, <<"Positive">>, <<"Neutral">>, <<"Negative">>,
     <<"Positive", "Neutral">>, <<"Positive", "Negative">>,
     <<"Neutral", "Negative">>, <<"Positive", "Neutral", "Negative">>}

PickerDates == {<<1, 31>>, <<2, 1>>}

SliderValues == {120, 300}

Criteria ==
    [selected_sentiments : {None} \cup {Some(l) : l \in SentimentLists},
     start_date : PickerDates,
     end_date : PickerDates,
     resolved_status : {None, Some("Y"), Some("N")},
     duration_range : SliderValues \X SliderValues]

\* The worked example's criteria, and one with every control set.
SampleCriteria ==
    {[selected_sentiments |-> None, start_date |-> <<1, 31>>,
      end_date |-> <<2, 1>>, resolved_status |-> None,
      duration_range |-> <<120, 300>>],
     [selected_sentiments |-> Some(<<"Positive", "Neutral">>),
      start_date |-> <<2, 1>>, end_date |-> <<2, 1>>,
      resolved_status |-> Some("Y"), duration_range |-> <<120, 120>>]}

-----------------------------------------------------------------------------
(* past_filters in SQLite, lines 38-50 and the statements of lines 239-247 *)

\* str() of the dropdown value: None, or a list of strings
RECURSIVE JoinQuoted(_)
JoinQuoted(list) ==
    IF list = <<>> THEN ""
    ELSE IF Len(list) = 1 THEN "'" \o list[1] \o "'"
    ELSE "'" \o list[1] \o "', " \o JoinQuoted(Tail(list))

StrOfList(value) ==
    IF value = None THEN "None" ELSE "[" \o JoinQuoted(value[1]) \o "]"

\* str() of the slider value, a list of two numbers
StrOfRange(range) == "[" \o ToString(range[1]) \o ", " \o ToString(range[2]) \o "]"

\* The parameter tuple of the INSERT, line 240.
InsertParams(a) ==
    [sentiment |-> StrOfList(a.selected_sentiments),
     start_date |-> a.start_date,
     end_date |-> a.end_date,
     resolved |-> a.resolved_status,
     duration_range |-> StrOfRange(a.duration_range)]

MaxRowid(tbl) ==
    IF tbl = {} THEN 0 ELSE CHOOSE m \in {r.id : r \in tbl} : \A r \in tbl : r.id <= m

MinRowid(tbl) == CHOOSE m \in {r.id : r \in tbl} : \A r \in tbl : r.id >= m

StoredRow(id, params) ==
    [id |-> id, sentiment |-> params.sentiment, start_date |-> params.start_date,
     end_date |-> params.end_date, resolved |-> params.resolved,
     duration_range |-> params.duration_range]

\* Faulty variants of the INSERT: a plain INTEGER PRIMARY KEY takes the largest rowid in
\* the table plus one; a hard-coded key with REPLACE keeps a single slot.
DbInsertPlainRowid(tbl, sq, params) ==
    LET id == MaxRowid(tbl) + 1
    IN  [table |-> tbl \cup {StoredRow(id, params)}, seq |-> sq, id |-> id]

DbInsertReplace(tbl, sq, params) ==
    LET id == sq + 1
    IN  [table |-> {StoredRow(id, params)}, seq |-> id, id |-> id]

\* INSERT into a table whose id is INTEGER PRIMARY KEY AUTOINCREMENT: the new
\* rowid is one more than the largest rowid the table has ever held, which
\* sqlite_sequence remembers across DELETE.
DbInsert(tbl, sq, params) ==
    LET id == Max(sq, MaxRowid(tbl)) + 1
    IN  [table |-> tbl \cup {StoredRow(id, params)}, seq |-> id, id |-> id]

\* Faulty variant of the DELETE: only the oldest row goes.
DbDeleteOldest(tbl) ==
    IF tbl = {} THEN {} ELSE {r \in tbl : r.id # MinRowid(tbl)}

\* DELETE FROM past_filters
DbDeleteAll(tbl) == {}

\* Faulty variant of the SELECT: the scan runs from the largest rowid down.
RECURSIVE DbSelectDescending(_)
DbSelectDescending(tbl) ==
    IF tbl = {} THEN <<>>
    ELSE LET last == CHOOSE r \in tbl : r.id = MaxRowid(tbl)
         IN  <<last>> \o DbSelectDescending(tbl \ {last})

\* SELECT * FROM past_filters: a scan of the table b-tree, which is keyed by
\* rowid, so the rows come in ascending id.
RECURSIVE DbSelectAll(_)
DbSelectAll(tbl) ==
    IF tbl = {} THEN <<>>
    ELSE LET first == CHOOSE r \in tbl : r.id = MinRowid(tbl)
         IN  <<first>> \o DbSelectAll(tbl \ {first})

\* past_data.to_string(), line 248: one line per row behind its positional
\* index, or the empty-frame notice.
to_string(frame) ==
    IF frame = <<>> THEN << <<"Empty DataFrame">> >>
    ELSE << <<"", "id", "sentiment", "start_date", "end_date", "resolved",
              "duration_range">> >>
         \o [i \in 1..Len(frame) |->
                <<i - 1, frame[i].id, frame[i].sentiment, frame[i].start_date,
                  frame[i].end_date, frame[i].resolved, frame[i].duration_range>>]

-----------------------------------------------------------------------------
(* Initial states: the module has been imported up to line 10 and the       *)
(* database file has just been created by lines 38-50.                      *)

Threads == 1..NumThreads

InitApp ==
    /\ normalized = FALSE
    /\ graph_args = None
    /\ filtered_df = None
    /\ table = {}
    /\ seq = 0
    /\ committed = [table |-> {}, seq |-> 0]
    /\ pending = {}
    /\ pc = [t \in Threads |-> "idle"]
    /\ button = [t \in Threads |-> ""]
    /\ args = [t \in Threads |-> None]
    /\ past_data = None
    /\ past_data_output = <<>>
    /\ triggered = "none"
    /\ assigned = <<>>
    /\ last_write = "none"

\* Any sheet of up to MaxRows rows.
InitAnySheet == df \in {WithIndex(s) : s \in Sheets} /\ InitApp

\* The sheet of the worked example.
Init == df = WithIndex(SampleSheet) /\ InitApp

-----------------------------------------------------------------------------
(* Start-up and update_graphs *)

Normalize ==
    /\ ~normalized
    /\ df' = Normalization(df)
    /\ normalized' = TRUE
    /\ UNCHANGED <<graphVars, dbVars, callVars, past_data, past_data_output,
                   triggered, assigned, last_write>>

update_graphs(c) ==
    /\ normalized
    /\ graph_args' = Some(c)
    /\ filtered_df' = Some(FilterSteps(df, c.selected_sentiments, c.start_date,
                                       c.end_date, c.resolved_status,
                                       c.duration_range))
    /\ triggered' = "update_graphs"
    /\ UNCHANGED <<dataVars, dbVars, callVars, past_data, past_data_output,
                   assigned, last_write>>

\* The first call after start-up, with any arguments. update_graphs reads df
\* alone, and nothing writes df after line 30, so a later call computes what
\* a first call with its arguments computes.
UpdateGraphs == graph_args = None /\ \E c \in Criteria : update_graphs(c)

UpdateGraphsSample == \E c \in SampleCriteria : update_graphs(c)

-----------------------------------------------------------------------------
(* handle_past_data, lines 231-248, one invocation at a time *)

Idle == \A t \in Threads : pc[t] = "idle"

\* Lines 233-234: nothing triggered the callback (the page load)
Untriggered ==
    /\ normalized /\ Idle
    /\ past_data_output' = <<>>
    /\ triggered' = "untriggered"
    /\ UNCHANGED <<dataVars, graphVars, dbVars, callVars, past_data, assigned,
                   last_write>>

\* Lines 238-241, 247-248
Save ==
    /\ normalized /\ Idle
    /\ Len(assigned) < MaxSaves
    /\ \E a \in SampleCriteria :
         LET ins == DbInsert(table, seq, InsertParams(a))
             frame == DbSelectAll(ins.table)
         IN  /\ table' = ins.table
             /\ seq' = ins.seq
             /\ committed' = [table |-> ins.table, seq |-> ins.seq]
             /\ pending' = {}
             /\ past_data' = Some(frame)
             /\ past_data_output' = to_string(frame)
             /\ assigned' = Append(assigned, ins.id)
    /\ last_write' = "save"
    /\ triggered' = "save-view-btn"
    /\ UNCHANGED <<dataVars, graphVars, callVars>>

\* Lines 243-245, 247-248
ClearAll ==
    /\ normalized /\ Idle
    /\ LET cleared == DbDeleteAll(table)
           frame == DbSelectAll(cleared)
       IN  /\ table' = cleared
           /\ committed' = [table |-> cleared, seq |-> seq]
           /\ pending' = {}
           /\ past_data' = Some(frame)
           /\ past_data_output' = to_string(frame)
    /\ last_write' = "clear"
    /\ triggered' = "delete-all-btn"
    /\ UNCHANGED <<dataVars, graphVars, callVars, seq, assigned>>

\* Lines 247-248 alone: view-past-btn
View ==
    /\ normalized /\ Idle
    /\ LET frame == DbSelectAll(table)
       IN  /\ past_data' = Some(frame)
           /\ past_data_output' = to_string(frame)
    /\ triggered' = "view-past-btn"
    /\ UNCHANGED <<dataVars, graphVars, dbVars, callVars, assigned, last_write>>

Next == Normalize \/ UpdateGraphsSample \/ Untriggered \/ Save \/ ClearAll \/ View

Spec == Init /\ [][Next]_vars

NextPipeline == Normalize \/ UpdateGraphs

SpecPipeline == InitAnySheet /\ [][NextPipeline]_vars

-----------------------------------------------------------------------------
(* handle_past_data, statement by statement, for invocations that the      *)
(* threaded server runs at once on the one connection (line 38,            *)
(* check_same_thread=False). Each sqlite3 call runs under the connection's *)
(* mutex, so a statement is one step.                                      *)

Buttons == {"save-view-btn", "view-past-btn", "delete-all-btn"}

SavesBegun ==
    Len(assigned)
    + Cardinality({t \in Threads : pc[t] = "execute" /\ button[t] = "save-view-btn"})

\* Lines 232-236: the invocation starts and reads which button triggered it.
CallStep ==
    \E t \in Threads, b \in Buttons, a \in SampleCriteria :
        /\ normalized
        /\ pc[t] = "idle"
        /\ b = "save-view-btn" => SavesBegun < MaxSaves
        /\ button' = [button EXCEPT ![t] = b]
        /\ args' = [args EXCEPT ![t] = Some(a)]
        /\ pc' = [pc EXCEPT ![t] = IF b = "view-past-btn" THEN "select" ELSE "execute"]
        /\ triggered' = b
        /\ UNCHANGED <<dataVars, graphVars, dbVars, past_data, past_data_output,
                       assigned, last_write>>

\* Line 239 or 244: cursor.execute. The sqlite3 module opens a transaction
\* before the first INSERT or DELETE; the write joins the open transaction.
ExecuteStep ==
    \E t \in Threads :
        /\ pc[t] = "execute"
        /\ IF button[t] = "save-view-btn"
           THEN LET ins == DbInsert(table, seq, InsertParams(args[t][1]))
                IN  /\ table' = ins.table
                    /\ seq' = ins.seq
                    /\ assigned' = Append(assigned, ins.id)
                    /\ last_write' = "save"
           ELSE /\ table' = DbDeleteAll(table)
                /\ last_write' = "clear"
                /\ UNCHANGED <<seq, assigned>>
        /\ pending' = pending \cup {t}
        /\ pc' = [pc EXCEPT ![t] = "commit"]
        /\ UNCHANGED <<dataVars, graphVars, committed, button, args, past_data,
                       past_data_output, triggered>>

\* Line 241 or 245: conn.commit() ends the connection's transaction, whoever
\* wrote in it.
CommitStep ==
    \E t \in Threads :
        /\ pc[t] = "commit"
        /\ committed' = [table |-> table, seq |-> seq]
        /\ pending' = {}
        /\ pc' = [pc EXCEPT ![t] = "select"]
        /\ UNCHANGED <<dataVars, graphVars, table, seq, button, args, past_data,
                       past_data_output, triggered, assigned, last_write>>

\* Lines 247-248: the SELECT runs on the same connection and sees its open
\* transaction.
SelectStep ==
    \E t \in Threads :
        /\ pc[t] = "select"
        /\ LET frame == DbSelectAll(table)
           IN  /\ past_data' = Some(frame)
               /\ past_data_output' = to_string(frame)
        /\ pc' = [pc EXCEPT ![t] = "idle"]
        /\ UNCHANGED <<dataVars, graphVars, dbVars, button, args, triggered,
                       assigned, last_write>>

NextConcurrent == Normalize \/ CallStep \/ ExecuteStep \/ CommitStep \/ SelectStep

SpecConcurrent == Init /\ [][NextConcurrent]_vars

-----------------------------------------------------------------------------
(* Properties *)

Ids(tbl) == {r.id : r \in tbl}

\* C1: every INSERT is given an id larger than every id given before it, the
\* first id is 1, and no id is given twice, DELETEs in between or not.
C1_IdsStrictlyIncreasing ==
    /\ \A i, j \in 1..Len(assigned) : i < j => assigned[i] < assigned[j]
    /\ assigned # <<>> => assigned[1] = 1

\* A save made after a clearAll that removed two saved rows.
C1_SaveAfterClear ==
    /\ Len(assigned) = 3
    /\ Cardinality(table) = 1
    /\ last_write = "save"

\* C2: with invocations interleaved on the shared connection, a SELECT never
\* reads while another invocation's write is uncommitted, and a COMMIT commits
\* no write but its own invocation's.
C2_WritesIsolated ==
    [][\A t \in Threads :
          /\ (pc[t] = "select" /\ pc'[t] = "idle") => pending \subseteq {t}
          /\ (pc[t] = "commit" /\ pc'[t] = "select") => pending \subseteq {t}]_vars

SentimentActive(c) ==
    c.selected_sentiments # None /\ c.selected_sentiments[1] # <<>>

\* The clauses of the filter other than the sentiment clause.
SatisfiesOthers(r, c) ==
    /\ DateValue(c.start_date) <= r.Date[1]
    /\ r.Date[1] <= DateValue(c.end_date)
    /\ c.resolved_status # None => r.Resolved[1] = c.resolved_status[1]
    /\ c.duration_range[1] <= r.AvgTalkDuration[1]
    /\ r.AvgTalkDuration[1] <= c.duration_range[2]

Satisfies(r, c) ==
    /\ SentimentActive(c) => r.Sentiment[1] \in Range(c.selected_sentiments[1])
    /\ SatisfiesOthers(r, c)

\* C3: the filtered subset holds exactly the records of the dataset that
\* satisfy every active clause.
C3_SubsetIsExactlyTheMatches ==
    graph_args # None =>
        Range(filtered_df[1]) = {r \in Range(df) : Satisfies(r, graph_args[1])}

\* Every clause active, and a record kept that sits on the end date and on
\* the upper duration bound.
C3_RecordKeptOnBounds ==
    /\ graph_args # None
    /\ SentimentActive(graph_args[1])
    /\ graph_args[1].resolved_status # None
    /\ df # <<>>
    /\ filtered_df[1] = df
    /\ df[1].Date[1] = DateValue(graph_args[1].end_date)
    /\ df[1].AvgTalkDuration[1] = graph_args[1].duration_range[2]

WithoutSentimentClause(frame, c) ==
    LET Keep(r) == SatisfiesOthers(r, c) IN SelectSeq(frame, Keep)

\* C4: with an empty or absent sentiment selection the filter returns what
\* it returns with the sentiment clause removed.
C4_EmptySelectionMatchesAll ==
    (graph_args # None /\ ~SentimentActive(graph_args[1])) =>
        filtered_df[1] = WithoutSentimentClause(df, graph_args[1])

\* An empty list was selected and a record came through.
C4_EmptyListKeepsRecord ==
    /\ graph_args # None
    /\ graph_args[1].selected_sentiments = Some(<<>>)
    /\ filtered_df[1] # <<>>

\* C5: every record left by normalisation has its five fields and the
\* sentiment of its rating; no row with a missing rating, date, duration or
\* resolved value is left.
C5_SurvivorsFullyPopulated ==
    normalized =>
        \A i \in 1..Len(df) :
            /\ df[i].rating # NaN
            /\ df[i].Date # NaN
            /\ df[i].AvgTalkDuration # NaN
            /\ df[i].Resolved # NaN
            /\ df[i].Sentiment = Some(classify_sentiment(df[i].rating))

\* C6: once clearAll has run and no save has followed, the listAll of that
\* action and of every later one is empty.
C6_EmptyAfterClear ==
    last_write = "clear" =>
        /\ past_data = Some(<<>>)
        /\ triggered \in {"delete-all-btn", "view-past-btn"} =>
               past_data_output = to_string(<<>>)

\* A view after a clearAll that removed saved rows.
C6_ViewAfterClear ==
    /\ last_write = "clear"
    /\ Len(assigned) >= 2
    /\ triggered = "view-past-btn"

C8_AppendOnly ==
    [][/\ Save => \E r \in table' :
                     /\ r.id \notin Ids(table)
                     /\ table' = table \cup {r}
       /\ (View \/ Untriggered \/ UpdateGraphsSample) => table' = table
       /\ ~(table \subseteq table') => (ClearAll /\ table' = {})]_vars

\* A save onto a table that already held a record.
C8_SaveOntoNonEmpty == triggered = "save-view-btn" /\ Cardinality(table) >= 2

\* C9: a present rating is classified Positive exactly when it is at least 4,
\* Neutral exactly when it is 3 and Negative exactly when it is at most 2, and
\* every row gets one of the three values.
C9_ClassificationByThreshold ==
    normalized =>
        \A i \in 1..Len(df) :
            /\ df[i].Sentiment # NaN
            /\ df[i].Sentiment[1] \in Range(Sentiments)
            /\ df[i].rating # NaN =>
                 /\ df[i].Sentiment[1] = "Positive" <=> df[i].rating[1] >= 4
                 /\ df[i].Sentiment[1] = "Neutral" <=> df[i].rating[1] = 3
                 /\ df[i].Sentiment[1] = "Negative" <=> df[i].rating[1] <= 2

\* A row rated exactly 4 was classified.
C9_RatedFour == normalized /\ \E i \in 1..Len(df) : df[i].rating = Some(4)

Inverted(c) ==
    \/ DateValue(c.start_date) > DateValue(c.end_date)
    \/ c.duration_range[1] > c.duration_range[2]

\* C10: called with an inverted date or duration range, update_graphs
\* produces the empty subset and leaves the dataset as it was.
C10_InvertedRangeIsEmpty ==
    [][(graph_args' # graph_args /\ Inverted(graph_args'[1])) =>
          /\ filtered_df' = Some(<<>>)
          /\ df' = df]_vars

\* An inverted date range met a dataset whose record the ordered range holds.
C10_InvertedOverData ==
    /\ graph_args # None
    /\ DateValue(graph_args[1].start_date) > DateValue(graph_args[1].end_date)
    /\ graph_args[1].duration_range = <<120, 300>>
    /\ ~SentimentActive(graph_args[1])
    /\ graph_args[1].resolved_status = None
    /\ df # <<>>

====
